---- MODULE Spec2Model ----
(***************************************************************************)
(* newscheck python_worker/worker.py: the single-article fetch worker.     *)
(*                                                                         *)
(* Strings are TLA+ strings; URLs are parsed character by character the    *)
(* way urllib.parse does it, so host/path tests are computed, not assumed. *)
(* A fetched document is a record of the parts worker.py reads from the    *)
(* parsed DOM: its anchors (href, visible text) and its canonical link.    *)
(***************************************************************************)
EXTENDS Integers, Sequences, FiniteSets, TLC

(***************************************************************************)
(* Python's None, for Optional[str] values.                                *)
(***************************************************************************)
None == "<None>"

----------------------------------------------------------------------------
(* str primitives *)

UpperAlpha == "ABCDEFGHIJKLMNOPQRSTUVWXYZ"
LowerAlpha == "abcdefghijklmnopqrstuvwxyz"
Digits == "0123456789"

CharAt(s, i) == SubSeq(s, i, i)

CharsOf(s) == {CharAt(s, i) : i \in 1..Len(s)}

\* s[i:] and s[:i] with 1-based i (s[:i] excludes position i)
From(s, i) == SubSeq(s, i, Len(s))
Upto(s, i) == SubSeq(s, 1, i - 1)

RECURSIVE FindFrom(_, _, _)
\* the first position >= i where sub occurs in s, 0 when there is none
FindFrom(s, sub, i) ==
    IF i + Len(sub) - 1 > Len(s) THEN 0
    ELSE IF SubSeq(s, i, i + Len(sub) - 1) = sub THEN i
    ELSE FindFrom(s, sub, i + 1)

RECURSIVE RFindFrom(_, _, _)
\* the last position <= i where sub occurs in s, 0 when there is none
RFindFrom(s, sub, i) ==
    IF i < 1 THEN 0
    ELSE IF SubSeq(s, i, i + Len(sub) - 1) = sub THEN i
    ELSE RFindFrom(s, sub, i - 1)

\* s.find(sub) as a 1-based position, 0 when absent
Find(s, sub) == FindFrom(s, sub, 1)

\* s.rfind(sub)
RFind(s, sub) == RFindFrom(s, sub, Len(s) - Len(sub) + 1)

\* sub in s
Contains(s, sub) == Find(s, sub) > 0

\* s.startswith(p)
StartsWith(s, p) == Len(s) >= Len(p) /\ SubSeq(s, 1, Len(p)) = p

\* each upper-case letter's lower-case letter
LowerOf == [i \in 1..Len(UpperAlpha) |-> <<CharAt(UpperAlpha, i), CharAt(LowerAlpha, i)>>]

LowerMap == [c \in {LowerOf[i][1] : i \in 1..Len(UpperAlpha)} |->
                LowerOf[CHOOSE i \in 1..Len(UpperAlpha) : LowerOf[i][1] = c][2]] @@ <<>>

LowerChar(c) == IF c \in DOMAIN LowerMap THEN LowerMap[c] ELSE c

RECURSIVE Lower(_)
\* s.lower()
Lower(s) == IF Len(s) = 0 THEN "" ELSE LowerChar(CharAt(s, 1)) \o Lower(From(s, 2))

Whitespace == {" ", "\t", "\n", "\r"}

RECURSIVE LStrip(_)
LStrip(s) ==
    IF Len(s) > 0 /\ CharAt(s, 1) \in Whitespace THEN LStrip(From(s, 2)) ELSE s

RECURSIVE RStrip(_)
RStrip(s) ==
    IF Len(s) > 0 /\ CharAt(s, Len(s)) \in Whitespace
    THEN RStrip(Upto(s, Len(s)))
    ELSE s

\* s.strip()
Strip(s) == RStrip(LStrip(s))

\* s.split(sep)[0], and what follows the first sep ("" without one)
BeforeFirst(s, sep) == IF Find(s, sep) > 0 THEN Upto(s, Find(s, sep)) ELSE s
AfterFirst(s, sep) == IF Find(s, sep) > 0 THEN From(s, Find(s, sep) + Len(sep)) ELSE ""

----------------------------------------------------------------------------
(* urllib.parse, as worker.py uses it *)

SchemeChars == CharsOf(UpperAlpha) \cup CharsOf(LowerAlpha) \cup CharsOf(Digits)
                  \cup {"+", "-", "."}

\* position of the first of "/", "?", "#" at or after start, Len(s)+1 if none
RECURSIVE NetlocEnd(_, _)
NetlocEnd(s, start) ==
    IF start > Len(s) THEN Len(s) + 1
    ELSE IF CharAt(s, start) \in {"/", "?", "#"} THEN start
    ELSE NetlocEnd(s, start + 1)

\* position of the ":" that ends u's scheme, 0 when u has no scheme
SchemeEnd(u) ==
    IF /\ Find(u, ":") > 1
       /\ CharAt(u, 1) \in (CharsOf(UpperAlpha) \cup CharsOf(LowerAlpha))
       /\ CharsOf(Upto(u, Find(u, ":"))) \subseteq SchemeChars
    THEN Find(u, ":")
    ELSE 0

\* urlsplit, stage by stage: the query is cut off what is left of the fragment
SplitQuery(scheme, netloc, rest) ==
    [scheme |-> scheme,
     netloc |-> netloc,
     path |-> BeforeFirst(rest, "?"),
     query |-> AfterFirst(rest, "?")]

\* the fragment is dropped
SplitFragment(scheme, netloc, rest) == SplitQuery(scheme, netloc, BeforeFirst(rest, "#"))

\* the netloc follows "//" and ends at the first "/", "?" or "#"
SplitNetloc(scheme, rest) ==
    IF StartsWith(rest, "//")
    THEN SplitFragment(scheme, SubSeq(rest, 3, NetlocEnd(rest, 3) - 1),
                       From(rest, NetlocEnd(rest, 3)))
    ELSE SplitFragment(scheme, "", rest)

\* c is SchemeEnd(u)
SplitScheme(u, c) ==
    IF c > 0 THEN SplitNetloc(Lower(Upto(u, c)), From(u, c + 1)) ELSE SplitNetloc("", u)

\* urlsplit: scheme, netloc, path, query
urlparse(u) == SplitScheme(u, SchemeEnd(u))

\* netloc without its userinfo
AfterUserinfo(netloc) ==
    IF RFind(netloc, "@") > 0 THEN From(netloc, RFind(netloc, "@") + 1) ELSE netloc

LowerOrNone(h) == IF h = "" THEN None ELSE Lower(h)

\* ParseResult.hostname: netloc without userinfo and port, lowercased
hostname(u) == LowerOrNone(BeforeFirst(AfterUserinfo(urlparse(u).netloc), ":"))

\* the escapes unquote decodes here; every other %XX is outside the URLs used
PercentCodes == <<"%3A", "%2F", "%3F", "%3D", "%26", "%25", "%20">>
PercentChars == <<":", "/", "?", "=", "&", "%", " ">>

RECURSIVE unquote_plus(_)
\* parse_qs decodes each value: "+" is a space, %XX is the escaped character
unquote_plus(s) ==
    IF Len(s) = 0 THEN ""
    ELSE IF CharAt(s, 1) = "+" THEN " " \o unquote_plus(From(s, 2))
    ELSE IF /\ CharAt(s, 1) = "%"
            /\ \E k \in 1..Len(PercentCodes) : StartsWith(s, PercentCodes[k])
         THEN LET code == CHOOSE k \in 1..Len(PercentCodes) : StartsWith(s, PercentCodes[k])
              IN  PercentChars[code] \o unquote_plus(From(s, 4))
    ELSE CharAt(s, 1) \o unquote_plus(From(s, 2))

RECURSIVE Split(_, _)
\* s.split(sep) for a one-character sep
Split(s, sep) ==
    LET i == Find(s, sep)
    IN  IF i = 0 THEN <<s>> ELSE <<Upto(s, i)>> \o Split(From(s, i + 1), sep)

\* parse_qs(query): the (name, value) pairs with a non-blank value, decoded
parse_qs(query) ==
    LET fields == Split(query, "&")
        pair(f) == LET e == Find(f, "=")
                   IN  IF e = 0 THEN <<unquote_plus(f), "">>
                       ELSE <<unquote_plus(Upto(f, e)), unquote_plus(From(f, e + 1))>>
    IN  SelectSeq([i \in 1..Len(fields) |-> pair(fields[i])], LAMBDA p : p[2] # "")

\* name in qs and qs[name]
QsHas(qs, name) == \E i \in 1..Len(qs) : qs[i][1] = name

\* qs[name][0]
QsFirst(qs, name) ==
    qs[CHOOSE i \in 1..Len(qs) :
          qs[i][1] = name /\ \A j \in 1..(i - 1) : qs[j][1] # name][2]

\* the directory of a path: up to and including its last "/"
DirOf(path) == IF RFind(path, "/") > 0 THEN SubSeq(path, 1, RFind(path, "/")) ELSE "/"

\* b is urlparse(base)
JoinParsed(b, ref) ==
    IF StartsWith(ref, "//") THEN b.scheme \o ":" \o ref
    ELSE IF StartsWith(ref, "/") THEN b.scheme \o "://" \o b.netloc \o ref
    ELSE IF StartsWith(ref, "./") THEN b.scheme \o "://" \o b.netloc \o DirOf(b.path) \o From(ref, 3)
    ELSE b.scheme \o "://" \o b.netloc \o DirOf(b.path) \o ref

\* urljoin(base, ref) for the two shapes worker.py joins: "/..." and "./..."
urljoin(base, ref) == JoinParsed(urlparse(base), ref)

Min(S) == CHOOSE m \in S : \A n \in S : m <= n

\* the first element of targets that is not None (None if there is none)
FirstSome(targets) ==
    IF \E i \in 1..Len(targets) : targets[i] # None
    THEN targets[Min({i \in 1..Len(targets) : targets[i] # None})]
    ELSE None

----------------------------------------------------------------------------
(* 4.1 Wrapper Detector *)

AggregatorHosts == {"news.google.com", "www.google.com", "google.com"}
GatewayHosts == {"www.google.com", "google.com"}

\* lines 149-160 on the lowercased host and the path
WrapperHostPath(host, path) ==
    IF host \notin AggregatorHosts THEN FALSE
    ELSE IF Contains(path, "/articles/") \/ Contains(path, "/rss/articles/") THEN TRUE
    ELSE IF host \in GatewayHosts /\ path = "/url" THEN TRUE
    ELSE FALSE

\* p is urlparse(u)
WrapperParsed(p) == WrapperHostPath(Lower(p.netloc), p.path)

is_google_news_wrapper(u) == WrapperParsed(urlparse(u))

(* 4.3 Redirect-link unwrapping helper *)

\* lines 212-216 on qs = parse_qs(p.query)
\* the target taken from q before url
QueryTargetQFirst(href, qs) ==
    IF QsHas(qs, "q") THEN QsFirst(qs, "q")
    ELSE IF QsHas(qs, "url") THEN QsFirst(qs, "url")
    ELSE href

QueryTarget(href, qs) ==
    IF QsHas(qs, "url") THEN QsFirst(qs, "url")
    ELSE IF QsHas(qs, "q") THEN QsFirst(qs, "q")
    ELSE href

\* p is urlparse(href)
GatewayTarget(href, p) ==
    IF Lower(p.netloc) \notin GatewayHosts THEN href
    ELSE IF p.path # "/url" THEN href
    ELSE QueryTarget(href, parse_qs(p.query))

unwrap_google_redirect(href) == GatewayTarget(href, urlparse(href))

----------------------------------------------------------------------------
(* 4.4 Publisher-Link Extractor *)

CallToAction == {"read full article", "view full coverage", "go to article"}

\* the host test of strategies 1 and 3: an absolute href off news.google.com
OffNewsHost(href) ==
    /\ StartsWith(href, "http")
    /\ urlparse(href).netloc \notin {"", "news.google.com"}

\* href when it passes the host test, None otherwise
Accept(href) == IF OffNewsHost(href) THEN href ELSE None

\* strategy 1 on one anchor (lines 297-308): href and link_text are stripped,
\* link_text is lowercased
CtaHref(href, link_text) ==
    IF href = "" THEN None
    ELSE IF \E phrase \in CallToAction : Contains(link_text, phrase)
         THEN Accept(unwrap_google_redirect(href))
         ELSE None

CtaTarget(a) == CtaHref(Strip(a.href), Lower(Strip(a.text)))

\* strategy 2 (lines 311-315) on the stripped canonical href
CanonHref(href) ==
    IF StartsWith(href, "http") /\ ~Contains(urlparse(href).netloc, "news.google.com")
    THEN href
    ELSE None

CanonTarget(canon) == IF canon = None \/ canon = "" THEN None ELSE CanonHref(Strip(canon))

\* strategy 3's href of an anchor (lines 320-329): made absolute, unwrapped
Absolute(href, base_url) ==
    IF StartsWith(href, "./") THEN urljoin(base_url, href)
    ELSE IF StartsWith(href, "/") THEN urljoin("https://news.google.com", href)
    ELSE href

ResolveHref(raw, base_url) == unwrap_google_redirect(Absolute(Strip(raw), base_url))

\* strategy 3 on one anchor (lines 320-333)
ExternalTarget(a, base_url) ==
    IF Strip(a.href) = "" THEN None ELSE Accept(ResolveHref(a.href, base_url))

\* line 336: the external links that have a path
WithPath(targets) ==
    [i \in 1..Len(targets) |->
        IF targets[i] # None /\ Len(urlparse(targets[i]).path) > 1 THEN targets[i]
        ELSE None]

\* the three strategies in order, on each anchor's strategy-1 and strategy-3
\* target and the canonical target
\* the strategies in order, strategy 3 without its preference for a path
PickPublisherDocOrder(ctas, canon, externals) ==
    IF FirstSome(ctas) # None THEN FirstSome(ctas)
    ELSE IF canon # None THEN canon
    ELSE FirstSome(externals)

PickPublisher(ctas, canon, externals) ==
    IF FirstSome(ctas) # None THEN FirstSome(ctas)
    ELSE IF canon # None THEN canon
    ELSE IF FirstSome(WithPath(externals)) # None THEN FirstSome(WithPath(externals))
    ELSE FirstSome(externals)

\* html is the parsed document: anchors with an href attribute in document
\* order, and the href of the first <link rel="canonical"> (None without one)
extract_publisher_url_from_google_news(html, base_url) ==
    PickPublisher([i \in 1..Len(html.anchors) |-> CtaTarget(html.anchors[i])],
                  CanonTarget(html.canon),
                  [i \in 1..Len(html.anchors) |-> ExternalTarget(html.anchors[i], base_url)])

----------------------------------------------------------------------------
(* 4.6 Fetcher *)

\* a document with no links: html_text before any fetch
EmptyDoc == [anchors |-> <<>>, canon |-> None]

HtmlFamily == {"text/html", "application/xhtml+xml", "application/xml"}

\* line 117: the lowercased header ("" if absent)
CTypeOf(header) == IF header = None THEN "" ELSE Lower(header)

\* the content-type test with equality in place of the substring tests
UnsupportedCTypeExact(ctype) ==
    ctype # "" /\ ctype \notin HtmlFamily

\* line 118: the content-type test
UnsupportedCType(ctype) ==
    ctype # "" /\ \A t \in HtmlFamily : ~Contains(ctype, t)

\* the body loop's pass with the cap tested before the chunk is counted
ChunkStepLateCheck(st, chunk, max_bytes) ==
    IF chunk = 0 THEN st
    ELSE IF st.total > max_bytes
         THEN [st EXCEPT !.total = st.total + chunk, !.raised = TRUE]
         ELSE [st EXCEPT !.total = st.total + chunk, !.buffered = st.buffered + chunk]

\* one pass of the body loop (lines 123-129) over a chunk of the given size
\* st.buffered is the byte length of the chunks list, st.total the counter
ChunkStep(st, chunk, max_bytes) ==
    IF chunk = 0 THEN st
    ELSE IF st.total + chunk > max_bytes
         THEN [st EXCEPT !.total = st.total + chunk, !.raised = TRUE]
         ELSE [st EXCEPT !.total = st.total + chunk, !.buffered = st.buffered + chunk]

BodyStart == [total |-> 0, buffered |-> 0, raised |-> FALSE]

RECURSIVE ReadBody(_, _, _)
\* the whole loop: stops at the chunk that raises
ReadBody(st, chunks, max_bytes) ==
    IF st.raised \/ chunks = <<>> THEN st
    ELSE ReadBody(ChunkStep(st, Head(chunks), max_bytes), Tail(chunks), max_bytes)

\* resp is what requests.get does for url: raises (resp.raises) or answers with
\* a status, headers, a final URL, body chunks and the document they decode to
fetch_html(url, resp, max_bytes) ==
    LET ctype == CTypeOf(resp.content_type)
        body == ReadBody(BodyStart, resp.chunks, max_bytes)
        fail(e) == [exc |-> e, html_text |-> EmptyDoc, final_url |-> "", ctype |-> ""]
    IN  IF urlparse(url).scheme \notin {"http", "https"} THEN fail("MissingSchema: invalid URL")
        ELSE IF resp.raises # None THEN fail(resp.raises)
        ELSE IF ~resp.status_ok THEN fail("HTTPError")
        ELSE IF UnsupportedCType(ctype)
             THEN fail("RuntimeError: unsupported content-type: " \o ctype)
        ELSE IF body.raised THEN fail("RuntimeError: response too large")
        ELSE [exc |-> None, html_text |-> resp.doc, final_url |-> resp.url, ctype |-> ctype]

----------------------------------------------------------------------------
(* 4.2 Redirect Resolver *)

\* lines 229-230 on url.hostname and url.path
LooksWrapped(host, path) ==
    /\ host \in AggregatorHosts
    /\ Contains(path, "/articles/") \/ Contains(path, "/rss/articles/")

\* "google" not in urlparse(href).netloc
OffGoogle(href) == ~Contains(urlparse(href).netloc, "google")

\* lines 271-275 on one anchor's href attribute
DecodeLink(href) == IF StartsWith(href, "http") /\ OffGoogle(href) THEN href ELSE None

DecodeLinks(hrefs) ==
    [i \in 1..Len(hrefs) |->
        IF hrefs[i] = None \/ hrefs[i] = "" THEN None
        ELSE DecodeLink(unwrap_google_redirect(hrefs[i]))]

\* Tier A.  env is the browser engine's behaviour: whether playwright is
\* importable, the call that raises (None if none does), the page's URL after
\* the settle delay, its canonical href and its anchors' hrefs.
\* The result carries the returned URL and what happened to the browser.
decode_google_news_url(source_url, env) ==
    LET ret(u, launched, closed) == [url |-> u, launched |-> launched, closed |-> closed]
    IN  IF ~LooksWrapped(hostname(source_url), urlparse(source_url).path)
        THEN ret(source_url, FALSE, FALSE)
        ELSE IF ~env.playwright THEN ret(source_url, FALSE, FALSE)
        ELSE IF env.raises \in {"sync_playwright", "launch"} THEN ret(source_url, FALSE, FALSE)
        ELSE IF env.raises \in {"new_context", "new_page"} THEN ret(source_url, TRUE, FALSE)
        ELSE IF env.raises \in {"goto", "close"} THEN ret(source_url, TRUE, TRUE)
        ELSE IF ~Contains(Lower(urlparse(env.page_url).netloc), "google")
             THEN ret(env.page_url, TRUE, TRUE)
        ELSE IF env.raises = "locator" THEN ret(source_url, TRUE, TRUE)
        ELSE IF env.canon # None /\ env.canon # "" /\ OffGoogle(env.canon)
             THEN ret(env.canon, TRUE, TRUE)
        ELSE IF FirstSome(DecodeLinks(env.hrefs)) # None
             THEN ret(FirstSome(DecodeLinks(env.hrefs)), TRUE, TRUE)
        ELSE ret(source_url, TRUE, TRUE)

\* line 177: the URL without its query; parsed is urlparse(url)
CleanURL(parsed) == parsed.scheme \o "://" \o parsed.netloc \o parsed.path

\* Tier B.  resp is what session.get does for the query-less URL
try_google_news_redirect(url, resp) ==
    IF resp.raises # None THEN None
    ELSE IF ~Contains(Lower(urlparse(resp.url).netloc), "google") THEN resp.url
    ELSE None

----------------------------------------------------------------------------
(* 4.8 Metadata Extractor: language *)

OrNone(s) == IF s = "" THEN None ELSE s

\* html_lang is the lang attribute of <html>, None without the tag or attribute
detect_lang(html_lang) ==
    IF html_lang = None \/ html_lang = "" THEN None
    ELSE OrNone(Strip(Lower(BeforeFirst(html_lang, "-"))))

\* the tag lowercased and trimmed, left whole
CleanLangWhole(lang) ==
    IF lang = None THEN None ELSE OrNone(Strip(Lower(lang)))

clean_lang(lang) ==
    IF lang = None THEN None
    ELSE LET l1 == Strip(lang)
             l2 == IF Contains(l1, "_") THEN BeforeFirst(l1, "_") ELSE l1
             l3 == IF Contains(l2, "-") THEN BeforeFirst(l2, "-") ELSE l2
         IN  OrNone(Strip(Lower(l3)))

\* a or b, for Optional[str]
Either(a, b) == IF a # None /\ a # "" THEN a ELSE b

----------------------------------------------------------------------------
(* 4.9 Translator Adapter *)

\* characters per translated chunk (4500 in worker.py, scaled)
TranslateChunkChars == 3

RECURSIVE ChunksOf(_)
\* [text[i:i+n] for i in range(0, len(text), n)]
ChunksOf(text) ==
    IF Len(text) = 0 THEN <<>>
    ELSE IF Len(text) <= TranslateChunkChars THEN <<text>>
    ELSE <<SubSeq(text, 1, TranslateChunkChars)>> \o ChunksOf(From(text, TranslateChunkChars + 1))

\* the engine's answer for one unit of text
Translated(target, s) == "[" \o target \o "]" \o s

RECURSIVE JoinSpace(_)
\* " ".join(parts)
JoinSpace(parts) ==
    IF parts = <<>> THEN ""
    ELSE IF Len(parts) = 1 THEN parts[1]
    ELSE parts[1] \o " " \o JoinSpace(Tail(parts))

\* lines 471-476: the title, translated unless empty or the engine raises
TranslateTitle(title, target, tenv) ==
    IF title = "" \/ tenv.title_raises THEN title ELSE Translated(target, title)

\* lines 479-489: the text, translated chunk by chunk; tenv.chunk_raises is the
\* chunk on which the engine raises (0: none)
TranslateText(text, target, tenv) ==
    LET chunks == ChunksOf(text)
    IN  IF text = "" THEN text
        ELSE IF tenv.chunk_raises \in 1..Len(chunks) THEN text
        ELSE JoinSpace([i \in 1..Len(chunks) |-> Translated(target, chunks[i])])

----------------------------------------------------------------------------
(* Result envelope *)

\* enc is how far json.dumps/print get: "utf8", "ascii" (the first attempt
\* raised) or "minimal" (both raised)
safe_json_output(payload, enc) ==
    IF enc \in {"utf8", "ascii"} THEN payload
    ELSE [ok |-> FALSE, error |-> "JSON encoding failed"]

SuccessPayload(elapsed, data) == [ok |-> TRUE, elapsed_ms |-> elapsed, data |-> data]

FailurePayload(elapsed, msg) ==
    [ok |-> FALSE, elapsed_ms |-> elapsed, error |-> msg, data |-> None]

\* the exit codes of lines 509, 516, 522, 531
ExitSuccess == 0
ExitHTTPError == 2
ExitTimeout == 2
ExitOther == 2

----------------------------------------------------------------------------
(* 4.7 Content Extractor *)

RECURSIVE CollapseSpaces(_)
\* runs of spaces collapsed, tabs left as they are
CollapseSpaces(s) ==
    IF Len(s) = 0 THEN ""
    ELSE IF CharAt(s, 1) = " " /\ Len(s) > 1 /\ CharAt(s, 2) = " "
         THEN CollapseSpaces(From(s, 2))
         ELSE CharAt(s, 1) \o CollapseSpaces(From(s, 2))

RECURSIVE CollapseBlanks(_)
\* re.sub(r"[ \t]+", " ", s): all of a run but its last character is dropped,
\* the last becomes a space
CollapseBlanks(s) ==
    IF Len(s) = 0 THEN ""
    ELSE IF CharAt(s, 1) \in {" ", "\t"}
         THEN IF Len(s) > 1 /\ CharAt(s, 2) \in {" ", "\t"}
              THEN CollapseBlanks(From(s, 2))
              ELSE " " \o CollapseBlanks(From(s, 2))
         ELSE CharAt(s, 1) \o CollapseBlanks(From(s, 2))

RECURSIVE CollapseNewlines(_)
\* re.sub(r"\n{3,}", "\n\n", s)
CollapseNewlines(s) ==
    IF Len(s) = 0 THEN ""
    ELSE IF StartsWith(s, "\n\n\n") THEN CollapseNewlines(From(s, 2))
    ELSE CharAt(s, 1) \o CollapseNewlines(From(s, 2))

normalize_space(s) == Strip(CollapseNewlines(CollapseBlanks(s)))

\* A parsed page, as far as extract_main_text reads it: the top-level elements
\* (blocks) in document order, each with a tag and its descendants (pieces,
\* each a tag and a text string), and whether there is a <body> around them.

\* line 79: the elements removed from the tree
Decomposed == {"script", "style", "noscript", "header", "footer", "nav", "aside"}

\* shortest candidate length (800 in worker.py, scaled)
MinCandidateLen == 3

NonEmpty(s) == s # ""

RECURSIVE JoinLines(_)
\* "\n".join(parts)
JoinLines(parts) ==
    IF parts = <<>> THEN ""
    ELSE IF Len(parts) = 1 THEN parts[1]
    ELSE parts[1] \o "\n" \o JoinLines(Tail(parts))

\* node.get_text("\n", strip=True) after line 80: the stripped, non-empty
\* strings of the descendants that were not removed
GetText(pieces) ==
    JoinLines(SelectSeq([i \in 1..Len(pieces) |->
                           IF pieces[i].tag \in Decomposed THEN "" ELSE Strip(pieces[i].text)],
                        NonEmpty))

\* lines 79-80: the blocks left in the tree
Kept(blocks) == SelectSeq(blocks, LAMBDA b : b.tag \notin Decomposed)

\* line 82: the <article> elements, in document order
Articles(kept) == SelectSeq(kept, LAMBDA b : b.tag = "article")

\* lines 86-91: the candidates in the order they are appended
Candidates(kept) ==
    SelectSeq([i \in 1..(3 * Len(kept)) |->
                 IF i <= Len(kept)
                 THEN IF kept[i].tag = "main" THEN normalize_space(GetText(kept[i].pieces)) ELSE ""
                 ELSE IF i <= 2 * Len(kept)
                 THEN IF kept[i - Len(kept)].tag = "div"
                      THEN normalize_space(GetText(kept[i - Len(kept)].pieces)) ELSE ""
                 ELSE IF kept[i - 2 * Len(kept)].tag = "section"
                      THEN normalize_space(GetText(kept[i - 2 * Len(kept)].pieces)) ELSE ""],
              LAMBDA t : Len(t) >= MinCandidateLen)

\* lines 93-95: the stable sort by length, longest first, and its head
Longest(texts) ==
    texts[CHOOSE i \in 1..Len(texts) :
            \A j \in 1..Len(texts) :
               /\ Len(texts[j]) <= Len(texts[i])
               /\ j < i => Len(texts[j]) < Len(texts[i])]

RECURSIVE AllPieces(_)
AllPieces(kept) ==
    IF kept = <<>> THEN <<>> ELSE Head(kept).pieces \o AllPieces(Tail(kept))

\* lines 82-101 on the blocks left after lines 79-80
FallbackText(kept, has_body) ==
    IF Articles(kept) # <<>>
    THEN normalize_space(GetText(Head(Articles(kept)).pieces))
    ELSE IF Candidates(kept) # <<>> THEN Longest(Candidates(kept))
    ELSE IF has_body THEN normalize_space(GetText(AllPieces(kept)))
    ELSE ""

\* doc.engine is what trafilatura.extract does: raises, or returns None or text
extract_main_text(doc) ==
    IF ~doc.engine.raises /\ doc.engine.text # None /\ doc.engine.text # ""
    THEN normalize_space(doc.engine.text)
    ELSE FallbackText(Kept(doc.blocks), doc.has_body)

----------------------------------------------------------------------------
(* Bounds and the inputs drawn from them *)

\* --max-bytes (3,000,000 by default) and the transport's chunk size (64 KiB),
\* scaled; bodies have at most MaxChunks chunks
MaxBytes == 4
ChunkSize == 2
MaxChunks == 3
\* anchors per fetched document in a run of main
MainAnchors == 1
\* elapsed_ms is a clock reading in 0..MaxElapsedMs
MaxElapsedMs == 0

max_unwrap_attempts == 2

PubURL == "https://pub.example/a"
OtherURL == "https://other.example/b"
WrapperURL == "https://news.google.com/articles/CBM"
GatewayURL == "https://www.google.com/url?q=https%3A%2F%2Fpub.example%2Fa"
AggregatorURL == "https://www.google.com/articles/x"
ConsentURL == "https://consent.google.com/m"

\* --url values: an article wrapper (with stray blanks), a gateway link, a
\* publisher URL
InputURLs == {" https://news.google.com/rss/articles/CBM?oc=5 ", GatewayURL, PubURL}

\* --target-lang values
TargetLangs == {None, "en"}

\* the anchors of fetched pages: a call to action to a publisher, a link to
\* an aggregator article, a relative link
MainHrefs == {PubURL, AggregatorURL, "./articles/CBM2"}
MainAnchorSet ==
    {[href |-> h, text |-> IF h = PubURL THEN "Read full article" ELSE "More"] : h \in MainHrefs}

RECURSIVE SeqsUpTo(_, _)
\* the sequences over S of length at most n
SeqsUpTo(S, n) ==
    IF n = 0 THEN {<<>>}
    ELSE LET shorter == SeqsUpTo(S, n - 1)
         IN  shorter \cup {Append(q, e) : q \in {r \in shorter : Len(r) = n - 1}, e \in S}

\* the documents a fetch in a run of main may return
MainDocs == [anchors : SeqsUpTo(MainAnchorSet, MainAnchors), canon : {None, OtherURL}]

\* where a GET of req may end after transport-level redirects
Landings(req) == {req, PubURL, WrapperURL}

NoResponse ==
    [raises |-> None, status_ok |-> TRUE, content_type |-> None, content_length |-> 0,
     chunks |-> <<>>, url |-> "", doc |-> EmptyDoc]

OversizeChunks == [i \in 1..((MaxBytes \div ChunkSize) + 1) |-> ChunkSize]

\* what requests.get may do for req
Responses(req) ==
    {[NoResponse EXCEPT !.raises = e] : e \in {"Timeout", "ConnectionError"}}
      \cup {[NoResponse EXCEPT !.status_ok = FALSE, !.url = req]}
      \cup {[NoResponse EXCEPT !.url = req, !.content_type = "application/json"]}
      \cup {[NoResponse EXCEPT !.url = req, !.chunks = <<1>>]}
      \cup {[NoResponse EXCEPT !.url = req, !.content_type = "text/html",
                               !.chunks = OversizeChunks]}
      \cup {[NoResponse EXCEPT !.url = u, !.content_type = "Text/HTML; charset=UTF-8",
                               !.chunks = <<1>>, !.doc = d] :
              u \in Landings(req), d \in MainDocs}

NoBrowser ==
    [playwright |-> FALSE, raises |-> None, page_url |-> "", canon |-> None, hrefs |-> <<>>]

\* what the browser engine may do for source_url
DecodeEnvs(source_url) ==
    {NoBrowser}
      \cup {[NoBrowser EXCEPT !.playwright = TRUE, !.raises = r] :
              r \in {"launch", "new_context", "new_page", "goto"}}
      \cup {[NoBrowser EXCEPT !.playwright = TRUE, !.raises = r, !.page_url = u,
                              !.canon = c, !.hrefs = h] :
              r \in {None, "locator", "close"},
              u \in {source_url, PubURL, ConsentURL},
              c \in {None, OtherURL, "https://News.Google.com/articles/z"},
              h \in {<<>>, <<GatewayURL>>, <<WrapperURL>>}}

\* what session.get may do for the query-less wrapper URL
RedirectResponses(url) ==
    {[NoResponse EXCEPT !.raises = "ConnectionError"]}
      \cup {[NoResponse EXCEPT !.url = u] : u \in {url, PubURL, ConsentURL}}

\* the parts of the final document the metadata and content extractors read:
\* <html lang>, og:locale, og:title, <title>, author, published time, and the
\* text extract_main_text returns; raises is a parser failure
NoContent ==
    [raises |-> FALSE, html_lang |-> None, og_locale |-> None, og_title |-> None,
     doc_title |-> "", author |-> None, published |-> None, text |-> ""]

Contents ==
    {NoContent,
     [NoContent EXCEPT !.raises = TRUE],
     [NoContent EXCEPT !.html_lang = "en-US", !.og_title = "Title", !.doc_title = "Doc",
                       !.author = "Ann", !.published = "2024-01-01", !.text = "abcdefg"],
     [NoContent EXCEPT !.og_locale = "fr_FR", !.doc_title = "Doc", !.author = "Bea",
                       !.text = "abc"]}

\* how the translation engine may fail
TranslatorEnvs ==
    [ctor_raises : BOOLEAN, title_raises : BOOLEAN, chunk_raises : 0..MaxChunks]

Encodings == {"utf8", "ascii", "minimal"}

----------------------------------------------------------------------------
(* What a run remembers of its first fetched document *)

\* netloc when it is a host outside the aggregator set, None otherwise
ExternalNetloc(netloc) ==
    IF netloc # "" /\ Lower(netloc) \notin AggregatorHosts THEN netloc ELSE None

\* the host a points to when its text says "read full article" and its href
\* is absolute on a host outside the aggregator set (None otherwise)
CtaHostOf(a) ==
    IF Contains(Lower(a.text), "read full article") /\ StartsWith(Strip(a.href), "http")
    THEN ExternalNetloc(urlparse(Strip(a.href)).netloc)
    ELSE None

\* the host of the first such anchor of doc
CtaExternalHost(doc) == FirstSome([i \in 1..Len(doc.anchors) |-> CtaHostOf(doc.anchors[i])])

\* h with p = urlparse(h) stays on the aggregator: relative, or absolute on an
\* aggregator host and not a gateway link that carries another target
InternalParsed(h, p) ==
    \/ p.scheme = "" /\ p.netloc = ""
    \/ Lower(p.netloc) \in AggregatorHosts /\ unwrap_google_redirect(h) = h

InternalHref(href) == InternalParsed(Strip(href), urlparse(Strip(href)))

\* doc has links, and all of them are internal or on aggregator hosts
InternalLinksOnly(doc) ==
    /\ doc.anchors # <<>>
    /\ \A i \in 1..Len(doc.anchors) : InternalHref(doc.anchors[i].href)
    /\ doc.canon = None \/ InternalHref(doc.canon)

\* lines 455-461 on the parts c of the final document
ArticleOf(c, url) ==
    [site |-> urlparse(url).netloc,
     title |-> Either(c.og_title, c.doc_title),
     author |-> c.author,
     published |-> c.published,
     lang |-> clean_lang(Either(detect_lang(c.html_lang), c.og_locale)),
     text |-> c.text]

----------------------------------------------------------------------------
(* The operators above, tabulated once over the URLs and documents of a run
   (an argument outside a table is computed directly) *)

\* the URLs named by the inputs, and those a relative link makes of them
BaseURLs ==
    {Strip(u) : u \in InputURLs}
      \cup {PubURL, OtherURL, WrapperURL, AggregatorURL, ConsentURL, "",
            "https://News.Google.com/articles/z"}

JoinedURLs(bases) == {urljoin(b, h) : b \in bases \ {""}, h \in {g \in MainHrefs : StartsWith(g, "./")}}

KnownURLs == BaseURLs \cup JoinedURLs(BaseURLs) \cup JoinedURLs(JoinedURLs(BaseURLs))

\* "@@ <<>>" makes TLC compute every value of a table once, when it starts
WrapperTable == [u \in KnownURLs |-> is_google_news_wrapper(u)] @@ <<>>

IsWrapper(u) == IF u \in KnownURLs THEN WrapperTable[u] ELSE is_google_news_wrapper(u)

PublisherTable ==
    [p \in MainDocs \X KnownURLs |->
                extract_publisher_url_from_google_news(p[1], p[2])] @@ <<>>

PublisherURL(html, base_url) ==
    IF html \in MainDocs /\ base_url \in KnownURLs THEN PublisherTable[<<html, base_url>>]
    ELSE extract_publisher_url_from_google_news(html, base_url)

\* every result fetch_html(url, ...) can have
FetchResults(url, max_bytes) == {fetch_html(url, resp, max_bytes) : resp \in Responses(url)}

FetchTable == [u \in KnownURLs |-> FetchResults(u, MaxBytes)] @@ <<>>

Fetched(url, max_bytes) ==
    IF url \in KnownURLs /\ max_bytes = MaxBytes THEN FetchTable[url]
    ELSE FetchResults(url, max_bytes)

\* every result decode_google_news_url(url, ...) can have
DecodeResults(url) == {decode_google_news_url(url, env) : env \in DecodeEnvs(url)}

DecodeTable == [u \in KnownURLs |-> DecodeResults(u)] @@ <<>>

Decoded(url) == IF url \in KnownURLs THEN DecodeTable[url] ELSE DecodeResults(url)

\* every result try_google_news_redirect(url, ...) can have
RedirectResults(url) ==
    {try_google_news_redirect(url, resp) : resp \in RedirectResponses(CleanURL(urlparse(url)))}

RedirectTable == [u \in KnownURLs |-> RedirectResults(u)] @@ <<>>

Redirected(url) == IF url \in KnownURLs THEN RedirectTable[url] ELSE RedirectResults(url)

DocFactsTable ==
    [d \in MainDocs |->
                [cta_host |-> CtaExternalHost(d), internal_only |-> InternalLinksOnly(d)]] @@ <<>>

DocFacts(d) ==
    IF d \in MainDocs THEN DocFactsTable[d]
    ELSE [cta_host |-> CtaExternalHost(d), internal_only |-> InternalLinksOnly(d)]

ArticleTable == [p \in Contents \X KnownURLs |-> ArticleOf(p[1], p[2])] @@ <<>>

ArticleFrom(c, url) ==
    IF url \in KnownURLs THEN ArticleTable[<<c, url>>] ELSE ArticleOf(c, url)

KnownTexts == {c.text : c \in Contents} \cup {Either(c.og_title, c.doc_title) : c \in Contents}

TitleTable ==
    [p \in KnownTexts \X (TargetLangs \ {None}) \X TranslatorEnvs |->
                TranslateTitle(p[1], p[2], p[3])] @@ <<>>

TitleIn(title, target, tenv) ==
    IF <<title, target, tenv>> \in DOMAIN TitleTable THEN TitleTable[<<title, target, tenv>>]
    ELSE TranslateTitle(title, target, tenv)

TextTable ==
    [p \in KnownTexts \X (TargetLangs \ {None}) \X TranslatorEnvs |->
                TranslateText(p[1], p[2], p[3])] @@ <<>>

TextIn(text, target, tenv) ==
    IF <<text, target, tenv>> \in DOMAIN TextTable THEN TextTable[<<text, target, tenv>>]
    ELSE TranslateText(text, target, tenv)

----------------------------------------------------------------------------
(* main *)

VARIABLES
    pc,             \* position in main
    args,           \* the parsed arguments: url, target_lang, max_bytes
    original_url, resolved_url, final_url, html_text,
    unwrap_count,
    article,        \* site, title, author, published, lang, text (lines 455-461)
    exc,            \* the exception being propagated to main's handlers
    stdout,         \* records written to the primary output
    returned,       \* main's return values
    fetch_calls,    \* calls of fetch_html
    tier,           \* how the pre-check ended: "skipped", "A", "B", "unresolved"
    first,          \* facts about the first fetched document and first re-fetch
    \* one call of fetch_html, statement by statement
    fetch_pc, fetch_resp, fetch_limit,
    fetch_rest,     \* the chunks iter_content has not delivered yet
    fetch_body,     \* total, the byte length of the chunks list, raised
    fetch_held,     \* body bytes in memory when the last chunk arrived
    fetch_exc,
    calls,          \* main's calls of the two tiers and its first fetch_html, in order
    \* one call of decode_google_news_url
    decode_pc, decode_src, decode_env, redirect_resp, redirect_ret,
    browser,        \* the browser process: launched, closed
    decode_ret,
    \* one call of a helper function: where it stands, its arguments, its result
    call_pc, call_in, call_out

mainVars == <<pc, args, original_url, resolved_url, final_url, html_text, unwrap_count,
              article, exc, stdout, returned, fetch_calls, tier, first, calls>>

NoArticle ==
    [site |-> "", title |-> "", author |-> None, published |-> None, lang |-> None,
     text |-> ""]

fetchVars == <<fetch_pc, fetch_resp, fetch_limit, fetch_rest, fetch_body, fetch_held,
               fetch_exc>>

decodeVars ==
    <<decode_pc, decode_src, decode_env, browser, decode_ret, redirect_resp, redirect_ret>>

callVars == <<call_pc, call_in, call_out>>

NoFirst ==
    [wrapper_page |-> FALSE, cta_host |-> None, internal_only |-> FALSE, direct |-> FALSE]

\* no call of fetch_html is being followed
FetchIdle ==
    /\ fetch_pc = "idle"
    /\ fetch_resp = NoResponse
    /\ fetch_limit = 0
    /\ fetch_rest = <<>>
    /\ fetch_body = BodyStart
    /\ fetch_held = 0
    /\ fetch_exc = None

\* no call of decode_google_news_url is being followed
DecodeIdle ==
    /\ decode_pc = "idle"
    /\ decode_src = ""
    /\ decode_env = NoBrowser
    /\ redirect_resp = NoResponse
    /\ redirect_ret = None
    /\ browser = [launched |-> FALSE, closed |-> FALSE]
    /\ decode_ret = None

\* no call of a helper function is being followed
CallIdle ==
    /\ call_pc = "idle"
    /\ call_in = None
    /\ call_out = None

Init ==
    /\ pc = "precheck"
    /\ args \in [url : InputURLs, target_lang : TargetLangs, max_bytes : {MaxBytes}]
    /\ original_url = Strip(args.url)
    /\ resolved_url = Strip(args.url)
    /\ final_url = ""
    /\ html_text = EmptyDoc
    /\ unwrap_count = 0
    /\ article = NoArticle
    /\ exc = None
    /\ stdout = <<>>
    /\ returned = <<>>
    /\ fetch_calls = 0
    /\ tier = "skipped"
    /\ first = NoFirst
    /\ calls = <<>>
    /\ FetchIdle
    /\ DecodeIdle
    /\ CallIdle

\* lines 400 (false branch): not a wrapper, no pre-check
SkipPrecheck ==
    /\ pc = "precheck"
    /\ ~IsWrapper(original_url)
    /\ pc' = "fetch"
    /\ UNCHANGED <<args, original_url, resolved_url, final_url, html_text, unwrap_count,
                   article, exc, stdout, returned, fetch_calls, tier, first>>
    /\ UNCHANGED <<calls, fetchVars, decodeVars, callVars>>

\* Tier A followed by Tier B whatever Tier A returned
TierAThenB ==
    /\ pc = "precheck"
    /\ IsWrapper(original_url)
    /\ \E decoded \in Decoded(original_url) :
           /\ calls' = Append(calls, [fn |-> "decode_google_news_url", url |-> original_url,
                                      ret |-> decoded.url])
           /\ IF decoded.url # original_url
              THEN /\ original_url' = decoded.url
                   /\ resolved_url' = decoded.url
                   /\ tier' = "A"
              ELSE /\ UNCHANGED <<original_url, resolved_url>>
                   /\ tier' = "unresolved"
    /\ pc' = "redirect"
    /\ UNCHANGED <<args, final_url, html_text, unwrap_count, article, exc, stdout,
                   returned, fetch_calls, first>>
    /\ UNCHANGED <<fetchVars, decodeVars, callVars>>

\* lines 400-409: Tier A
TierA ==
    /\ pc = "precheck"
    /\ IsWrapper(original_url)
    /\ \E decoded \in Decoded(original_url) :
           /\ calls' = Append(calls, [fn |-> "decode_google_news_url", url |-> original_url,
                                      ret |-> decoded.url])
           /\ IF decoded.url # original_url
              THEN /\ original_url' = decoded.url
                   /\ resolved_url' = decoded.url
                   /\ tier' = "A"
                   /\ pc' = "fetch"
              ELSE /\ UNCHANGED <<original_url, resolved_url>>
                   /\ tier' = "unresolved"
                   /\ pc' = "redirect"
    /\ UNCHANGED <<args, final_url, html_text, unwrap_count, article, exc, stdout,
                   returned, fetch_calls, first>>
    /\ UNCHANGED <<fetchVars, decodeVars, callVars>>

\* lines 410-423: Tier B
TierB ==
    /\ pc = "redirect"
    /\ \E redirected \in Redirected(original_url) :
           /\ calls' = Append(calls, [fn |-> "try_google_news_redirect", url |-> original_url,
                                      ret |-> redirected])
           /\ IF redirected # None /\ redirected # ""
              THEN /\ original_url' = redirected
                   /\ resolved_url' = redirected
                   /\ tier' = "B"
              ELSE UNCHANGED <<original_url, resolved_url, tier>>
    /\ pc' = "fetch"
    /\ UNCHANGED <<args, final_url, html_text, unwrap_count, article, exc, stdout,
                   returned, fetch_calls, first>>
    /\ UNCHANGED <<fetchVars, decodeVars, callVars>>

\* lines 425-433: the first fetch
FirstFetch ==
    /\ pc = "fetch"
    /\ \E r \in Fetched(original_url, args.max_bytes) :
              IF r.exc # None
              THEN /\ exc' = r.exc
                   /\ pc' = "except"
                   /\ UNCHANGED <<html_text, final_url, resolved_url, first>>
              ELSE /\ html_text' = r.html_text
                   /\ final_url' = r.final_url
                   /\ resolved_url' = r.final_url
                   /\ first' = [first EXCEPT
                                  !.wrapper_page = IsWrapper(r.final_url),
                                  !.cta_host = DocFacts(r.html_text).cta_host,
                                  !.internal_only = DocFacts(r.html_text).internal_only]
                   /\ pc' = "loop"
                   /\ UNCHANGED exc
    /\ fetch_calls' = fetch_calls + 1
    /\ calls' = Append(calls, [fn |-> "fetch_html", url |-> original_url, ret |-> None])
    /\ unwrap_count' = 0
    /\ UNCHANGED <<args, original_url, article, stdout, returned, tier>>
    /\ UNCHANGED <<fetchVars, decodeVars, callVars>>

\* the loop condition on the fetched URL alone
StillWrappedFinalOnly ==
    /\ IsWrapper(final_url)
    /\ unwrap_count < max_unwrap_attempts

\* the loop condition with the attempt test off by one
StillWrappedOffByOne ==
    /\ IsWrapper(final_url) \/ IsWrapper(original_url)
    /\ unwrap_count <= max_unwrap_attempts

\* line 435: the loop condition
StillWrapped ==
    /\ IsWrapper(final_url) \/ IsWrapper(original_url)
    /\ unwrap_count < max_unwrap_attempts

\* lines 435-451: one pass of the unwrap loop
UnwrapPass ==
    /\ pc = "loop"
    /\ StillWrapped
    /\ \E pub \in {PublisherURL(html_text, final_url)} :
           IF pub # None /\ pub # ""
           THEN \E r \in Fetched(pub, args.max_bytes) :
                       /\ fetch_calls' = fetch_calls + 1
                       /\ IF r.exc # None
                          THEN /\ exc' = r.exc
                               /\ pc' = "except"
                               /\ UNCHANGED <<html_text, final_url, resolved_url,
                                              unwrap_count, first>>
                          ELSE /\ html_text' = r.html_text
                               /\ final_url' = r.final_url
                               /\ resolved_url' = r.final_url
                               /\ unwrap_count' = unwrap_count + 1
                               /\ first' = IF unwrap_count = 0
                                           THEN [first EXCEPT !.direct = (r.final_url = pub)]
                                           ELSE first
                               /\ UNCHANGED <<exc, pc>>
           ELSE /\ exc' = "RuntimeError: Could not unwrap Google News article - no publisher link found"
                /\ pc' = "except"
                /\ UNCHANGED <<html_text, final_url, resolved_url, unwrap_count,
                               fetch_calls, first>>
    /\ UNCHANGED <<args, original_url, article, stdout, returned, tier>>
    /\ UNCHANGED <<calls, fetchVars, decodeVars, callVars>>

\* lines 453-464: the loop is left; metadata and text are extracted
ExtractArticle ==
    /\ pc = "loop"
    /\ ~StillWrapped
    /\ \E c \in Contents :
          IF c.raises
          THEN /\ exc' = "RecursionError: parser"
               /\ pc' = "except"
               /\ UNCHANGED article
          ELSE /\ article' = ArticleFrom(c, final_url)
               /\ pc' = IF args.target_lang # None /\ args.target_lang # ""
                           /\ args.target_lang # article'.lang
                        THEN "translate" ELSE "emit"
               /\ UNCHANGED exc
    /\ UNCHANGED <<args, original_url, resolved_url, final_url, html_text, unwrap_count,
                   stdout, returned, fetch_calls, tier, first>>
    /\ UNCHANGED <<calls, fetchVars, decodeVars, callVars>>

\* a translation stage that also translates the author
TranslateAll ==
    /\ pc = "translate"
    /\ \E tenv \in TranslatorEnvs :
          IF tenv.ctor_raises
          THEN /\ exc' = "LanguageNotSupportedException: target"
               /\ pc' = "except"
               /\ UNCHANGED article
          ELSE /\ article' = [article EXCEPT
                                !.title = TitleIn(article.title, args.target_lang, tenv),
                                !.text = TextIn(article.text, args.target_lang, tenv),
                                !.author = IF article.author = None THEN None
                                           ELSE Translated(args.target_lang, article.author)]
               /\ pc' = "emit"
               /\ UNCHANGED exc
    /\ UNCHANGED <<args, original_url, resolved_url, final_url, html_text, unwrap_count,
                   stdout, returned, fetch_calls, tier, first>>
    /\ UNCHANGED <<calls, fetchVars, decodeVars, callVars>>

\* lines 464-491: translation
Translate ==
    /\ pc = "translate"
    /\ \E tenv \in TranslatorEnvs :
          IF tenv.ctor_raises
          THEN /\ exc' = "LanguageNotSupportedException: target"
               /\ pc' = "except"
               /\ UNCHANGED article
          ELSE /\ article' = [article EXCEPT
                                !.title = TitleIn(article.title, args.target_lang, tenv),
                                !.text = TextIn(article.text, args.target_lang, tenv)]
               /\ pc' = "emit"
               /\ UNCHANGED exc
    /\ UNCHANGED <<args, original_url, resolved_url, final_url, html_text, unwrap_count,
                   stdout, returned, fetch_calls, tier, first>>
    /\ UNCHANGED <<calls, fetchVars, decodeVars, callVars>>

\* lines 493-504
Extracted ==
    [url |-> original_url, resolved_url |-> resolved_url, final_url |-> final_url,
     site |-> article.site, title |-> article.title, author |-> article.author,
     published_at |-> article.published, lang |-> article.lang, text |-> article.text,
     fetched_at |-> "now"]

Finish(payload, code) ==
    /\ \E enc \in Encodings : stdout' = Append(stdout, safe_json_output(payload, enc))
    /\ returned' = Append(returned, code)
    /\ pc' = "done"
    /\ UNCHANGED <<args, original_url, resolved_url, final_url, html_text, unwrap_count,
                   article, exc, fetch_calls, tier, first>>
    /\ UNCHANGED <<calls, fetchVars, decodeVars, callVars>>

\* lines 506-509
EmitSuccess ==
    /\ pc = "emit"
    /\ \E ms \in 0..MaxElapsedMs : Finish(SuccessPayload(ms, Extracted), ExitSuccess)

\* lines 511-516
HandleHTTPError ==
    /\ pc = "except"
    /\ exc = "HTTPError"
    /\ \E ms \in 0..MaxElapsedMs :
          Finish(FailurePayload(ms, "HTTP 404: Not Found for url"), ExitHTTPError)

\* lines 518-522
HandleTimeout ==
    /\ pc = "except"
    /\ exc = "Timeout"
    /\ \E ms \in 0..MaxElapsedMs : Finish(FailurePayload(ms, "Request timeout"), ExitTimeout)

\* lines 524-531
HandleException ==
    /\ pc = "except"
    /\ exc \notin {"HTTPError", "Timeout"}
    /\ \E ms \in 0..MaxElapsedMs : Finish(FailurePayload(ms, exc), ExitOther)

MainNext ==
    \/ SkipPrecheck
    \/ TierA
    \/ TierB
    \/ FirstFetch
    \/ UnwrapPass
    \/ ExtractArticle
    \/ Translate
    \/ EmitSuccess
    \/ HandleHTTPError
    \/ HandleTimeout
    \/ HandleException

vars == <<mainVars, fetchVars, decodeVars, callVars>>

Next == MainNext

Spec == Init /\ [][Next]_vars

\* main is one sequential thread: a step that can run does run
FairSpec == Spec /\ WF_vars(Next)

----------------------------------------------------------------------------
(* fetch_html, statement by statement *)

\* main is not running
MainIdle ==
    /\ pc = "idle"
    /\ args = [url |-> PubURL, target_lang |-> None, max_bytes |-> MaxBytes]
    /\ original_url = PubURL
    /\ resolved_url = PubURL
    /\ final_url = ""
    /\ html_text = EmptyDoc
    /\ unwrap_count = 0
    /\ article = NoArticle
    /\ exc = None
    /\ stdout = <<>>
    /\ returned = <<>>
    /\ fetch_calls = 0
    /\ tier = "skipped"
    /\ first = NoFirst
    /\ calls = <<>>

\* Content-Type headers a server may send (None: no header)
ContentTypes ==
    {None, "text/html", "Text/HTML; charset=UTF-8", "application/xhtml+xml",
     "application/xml", "Application/JSON", "text/plain"}

\* declared Content-Length values, true or not
ContentLengths == {0, 1, MaxBytes + ChunkSize + 1}

\* bodies as iter_content delivers them: chunks of 0..ChunkSize bytes
Bodies == SeqsUpTo(0..ChunkSize, MaxChunks)

FetchResponses ==
    {[NoResponse EXCEPT !.raises = "Timeout"], [NoResponse EXCEPT !.status_ok = FALSE]}
      \cup {[NoResponse EXCEPT !.url = PubURL, !.content_type = t, !.content_length = l,
                               !.chunks = b] :
              t \in ContentTypes, l \in ContentLengths, b \in Bodies}

FetchInit ==
    /\ MainIdle
    /\ DecodeIdle
    /\ CallIdle
    /\ fetch_pc = "get"
    /\ fetch_resp \in FetchResponses
    /\ fetch_limit \in {MaxBytes - 1, MaxBytes}
    /\ fetch_rest = <<>>
    /\ fetch_body = BodyStart
    /\ fetch_held = 0
    /\ fetch_exc = None

FetchRaise(e) ==
    /\ fetch_exc' = e
    /\ fetch_pc' = "raised"

\* lines 114-121: the request, the status check, the content-type check
FetchGet ==
    /\ fetch_pc = "get"
    /\ IF fetch_resp.raises # None THEN FetchRaise(fetch_resp.raises)
       ELSE IF ~fetch_resp.status_ok THEN FetchRaise("HTTPError")
       ELSE IF UnsupportedCType(CTypeOf(fetch_resp.content_type))
            THEN FetchRaise("RuntimeError: unsupported content-type: "
                              \o CTypeOf(fetch_resp.content_type))
       ELSE /\ fetch_pc' = "body"
            /\ UNCHANGED fetch_exc
    /\ fetch_rest' = fetch_resp.chunks
    /\ UNCHANGED <<fetch_resp, fetch_limit, fetch_body, fetch_held>>
    /\ UNCHANGED <<mainVars, decodeVars, callVars>>

\* lines 123-129: one chunk arrives and is counted
FetchChunk ==
    /\ fetch_pc = "body"
    /\ fetch_rest # <<>>
    /\ fetch_held' = fetch_body.buffered + Head(fetch_rest)
    /\ fetch_body' = ChunkStep(fetch_body, Head(fetch_rest), fetch_limit)
    /\ fetch_rest' = Tail(fetch_rest)
    /\ IF fetch_body'.raised THEN FetchRaise("RuntimeError: response too large")
       ELSE UNCHANGED <<fetch_pc, fetch_exc>>
    /\ UNCHANGED <<fetch_resp, fetch_limit>>
    /\ UNCHANGED <<mainVars, decodeVars, callVars>>

\* lines 131-139: the body is joined, decoded and returned
FetchReturn ==
    /\ fetch_pc = "body"
    /\ fetch_rest = <<>>
    /\ fetch_pc' = "returned"
    /\ UNCHANGED <<fetch_resp, fetch_limit, fetch_rest, fetch_body, fetch_held, fetch_exc>>
    /\ UNCHANGED <<mainVars, decodeVars, callVars>>

FetchNext ==
    \/ FetchGet
    \/ FetchChunk
    \/ FetchReturn

SpecFetch == FetchInit /\ [][FetchNext]_vars

----------------------------------------------------------------------------
(* decode_google_news_url and the browser it opens *)

DecodeSources == {Strip(u) : u \in InputURLs} \cup {WrapperURL, AggregatorURL}

DecodeInit ==
    /\ MainIdle
    /\ FetchIdle
    /\ CallIdle
    /\ decode_pc = "call"
    /\ decode_src \in DecodeSources
    /\ decode_env \in DecodeEnvs(decode_src)
    /\ redirect_resp \in RedirectResponses(CleanURL(urlparse(decode_src)))
    /\ browser = [launched |-> FALSE, closed |-> FALSE]
    /\ decode_ret = None
    /\ redirect_ret = None

\* lines 226-287: the call runs to its return
DecodeCall ==
    /\ decode_pc = "call"
    /\ LET d == decode_google_news_url(decode_src, decode_env)
       IN  /\ browser' = [launched |-> d.launched, closed |-> d.closed]
           /\ decode_ret' = d.url
    /\ decode_pc' = "returned"
    /\ UNCHANGED <<decode_src, decode_env, redirect_resp, redirect_ret>>
    /\ UNCHANGED <<mainVars, fetchVars, callVars>>

\* lines 174-199: a call of Tier B on the same URL runs to its return
RedirectCall ==
    /\ decode_pc = "returned"
    /\ redirect_ret' = try_google_news_redirect(decode_src, redirect_resp)
    /\ decode_pc' = "redirected"
    /\ UNCHANGED <<decode_src, decode_env, redirect_resp, browser, decode_ret>>
    /\ UNCHANGED <<mainVars, fetchVars, callVars>>

DecodeNext ==
    \/ DecodeCall
    \/ RedirectCall

SpecDecode == DecodeInit /\ [][DecodeNext]_vars

----------------------------------------------------------------------------
(* Properties of main *)

\* --url, stripped, is a wrapper
InputIsWrapper == IsWrapper(Strip(args.url))

\* main has returned after printing a success record
Succeeded == pc = "done" /\ stdout # <<>> /\ stdout[1].ok

CouldNotUnwrap == "RuntimeError: Could not unwrap Google News article - no publisher link found"

\* C1: for a wrapper input, whatever the resolver tiers and the fetches do, no
\* success record carries a final_url that is_google_news_wrapper still
\* classifies as a wrapper.
C1_NoWrapperInSuccess ==
    InputIsWrapper /\ Succeeded => ~IsWrapper(stdout[1].data.final_url)

\* C2: once the loop has made its 2 re-fetches and the URL it holds is still a
\* wrapper, main does not go on to extraction and a success record: it ends
\* with a failure record.
C2_ExhaustionFails ==
    unwrap_count = max_unwrap_attempts /\ IsWrapper(final_url)
        => /\ pc \notin {"translate", "emit"}
           /\ pc = "done" => ~stdout[1].ok /\ returned[1] # ExitSuccess

\* C3: the loop re-fetches at most 2 times, so fetch_html is called at most 3
\* times, and the loop is always left.
C3_UnwrapBounded ==
    /\ [](unwrap_count <= max_unwrap_attempts /\ fetch_calls <= max_unwrap_attempts + 1)
    /\ (pc = "loop" ~> pc # "loop")

\* a run that made both re-fetches and returned
C3_Witness == pc = "done" /\ unwrap_count = max_unwrap_attempts /\ fetch_calls = 3

\* C4: a wrapper input the pre-check does not resolve, whose wrapper page has
\* a "Read full article" anchor to an external host E that is fetched without
\* a redirect, ends in a success record whose final_url is on E, whatever the
\* page at E links to (runs in which a later step fails for a reason of its
\* own - transport, parser, translator, encoder - are left aside).
C4_CtaHostIsFinal ==
    /\ pc = "done"
    /\ InputIsWrapper
    /\ tier = "unresolved"
    /\ first.wrapper_page
    /\ first.cta_host # None
    /\ first.direct
    /\ exc \in {None, CouldNotUnwrap}
    /\ "elapsed_ms" \in DOMAIN stdout[1]
    => /\ stdout[1].ok
       /\ urlparse(stdout[1].data.final_url).netloc = first.cta_host

\* C5: a wrapper input the pre-check does not resolve, whose wrapper page has
\* only relative links and links to aggregator hosts, makes no further fetch
\* and ends with a failure record that says it could not unwrap, and a
\* non-zero exit code.
C5_InternalOnlyFails ==
    InputIsWrapper /\ tier = "unresolved" /\ first.wrapper_page /\ first.internal_only
        => /\ fetch_calls = 1
           /\ pc = "done" => /\ ~stdout[1].ok
                             /\ Contains(stdout[1].error, "Could not unwrap")
                             /\ returned[1] # ExitSuccess

SuccessShape(rec) ==
    DOMAIN rec = {"ok", "elapsed_ms", "data"} /\ rec.ok = TRUE

FailureShape(rec) ==
    /\ DOMAIN rec = {"ok", "elapsed_ms", "error", "data"}
    /\ rec.ok = FALSE
    /\ rec.data = None

\* C6: a run of main prints exactly one record and returns one exit code; the
\* record has the success shape or the failure shape, and the exit code is 0
\* exactly when ok is true.
C6_OneWellFormedRecord ==
    pc = "done"
        => /\ Len(stdout) = 1
           /\ Len(returned) = 1
           /\ SuccessShape(stdout[1]) \/ FailureShape(stdout[1])
           /\ (returned[1] = ExitSuccess) <=> stdout[1].ok

\* C7: the exit code is 0 exactly on success, and on failure it tells the
\* class: the HTTP-error code is returned for HTTP status errors only, the
\* timeout code for timeouts only.
C7_ExitCodesDistinguish ==
    pc = "done"
        => /\ (returned[1] = ExitSuccess) <=> (exc = None)
           /\ (returned[1] = ExitHTTPError) <=> (exc = "HTTPError")
           /\ (returned[1] = ExitTimeout) <=> (exc = "Timeout")

----------------------------------------------------------------------------
(* Properties of fetch_html *)

\* C8: whatever chunks arrive and whatever Content-Length was declared, the
\* body bytes in memory never exceed max_bytes plus one chunk; once the
\* running total exceeds max_bytes the call has raised "response too large";
\* a returned body is at most max_bytes long.
C8_BodyCapped ==
    /\ fetch_held <= fetch_limit + ChunkSize
    /\ fetch_body.total > fetch_limit
          => fetch_pc = "raised" /\ fetch_exc = "RuntimeError: response too large"
    /\ fetch_pc = "returned" => fetch_body.buffered <= fetch_limit

\* the cap is hit with more than max_bytes in memory, under a declared
\* Content-Length of 0
C8_Witness ==
    /\ fetch_pc = "raised"
    /\ fetch_body.total > fetch_limit
    /\ fetch_held > fetch_limit
    /\ fetch_resp.content_length = 0

\* the server answered with a success status
Answered == fetch_pc \in {"body", "raised", "returned"}
              /\ fetch_resp.raises = None /\ fetch_resp.status_ok

RejectedCType ==
    fetch_pc = "raised" /\ StartsWith(fetch_exc, "RuntimeError: unsupported content-type")

InFamily(ctype) == \E t \in HtmlFamily : Contains(ctype, t)

\* C9 as stated: a result is returned only for a content-type of the HTML
\* family; any other value, an absent header included, is rejected before a
\* body byte is read.
C9_OnlyHtmlFamily ==
    Answered
        => /\ fetch_pc = "returned" => InFamily(CTypeOf(fetch_resp.content_type))
           /\ ~InFamily(CTypeOf(fetch_resp.content_type))
                 => RejectedCType /\ fetch_body.total = 0 /\ fetch_held = 0

\* C9, amended: the call is rejected for its content-type exactly when the
\* header is present and non-empty and contains none of text/html,
\* application/xhtml+xml, application/xml (case-insensitively), and then
\* before any body byte is read; a response without the header is read.
C9_DeclaredTypeChecked ==
    Answered
        => /\ RejectedCType <=> /\ CTypeOf(fetch_resp.content_type) # ""
                                /\ ~InFamily(CTypeOf(fetch_resp.content_type))
           /\ RejectedCType
                 => fetch_body.total = 0 /\ fetch_held = 0 /\ fetch_rest = fetch_resp.chunks

\* a declared JSON body is rejected unread
C9_Witness ==
    /\ fetch_resp.content_type = "Application/JSON"
    /\ fetch_resp.chunks # <<>>
    /\ fetch_exc = "RuntimeError: unsupported content-type: application/json"

----------------------------------------------------------------------------
(* Properties of decode_google_news_url *)

\* C10: once the browser was launched, browser.close has been called by the
\* time the call returns, on every path.
C10_BrowserClosed ==
    decode_pc = "returned" /\ browser.launched => browser.closed

----------------------------------------------------------------------------
(* Calls of the helper functions, each on an argument drawn from a bounded set *)

\* the call is about to be made on one of the inputs
CallStart(inputs) ==
    /\ MainIdle
    /\ FetchIdle
    /\ DecodeIdle
    /\ call_pc = "call"
    /\ call_in \in inputs
    /\ call_out = None

\* the call returns result
CallReturn(result) ==
    /\ call_pc = "call"
    /\ call_out' = result
    /\ call_pc' = "returned"
    /\ UNCHANGED call_in
    /\ UNCHANGED <<mainVars, fetchVars, decodeVars>>

RECURSIVE StringsUpTo(_, _)
\* the strings over chars of length at most n
StringsUpTo(chars, n) ==
    IF n = 0 THEN {""}
    ELSE StringsUpTo(chars, n - 1)
           \cup {t \o c : t \in {x \in StringsUpTo(chars, n - 1) : Len(x) = n - 1}, c \in chars}

\* strings given to normalize_space: spaces, tabs, newlines and a letter
NormMaxLen == 5
NormInputs == StringsUpTo({" ", "\t", "\n", "a"}, NormMaxLen)

NormalizeCall == CallReturn(normalize_space(call_in))

SpecNormalize == CallStart(NormInputs) /\ [][NormalizeCall]_vars

\* pages given to extract_main_text: at most TextBlocks blocks
TextBlocks == 2
TextPieces ==
    {<<>>,
     <<[tag |-> "p", text |-> "abcd"]>>,
     <<[tag |-> "script", text |-> "var x"], [tag |-> "p", text |-> " ab"]>>}
TextDocs ==
    [engine : {[raises |-> TRUE, text |-> None], [raises |-> FALSE, text |-> None],
               [raises |-> FALSE, text |-> ""], [raises |-> FALSE, text |-> " eng  text"]},
     blocks : SeqsUpTo([tag : {"article", "main", "div", "section", "nav"}, pieces : TextPieces],
                       TextBlocks),
     has_body : BOOLEAN]

MainTextCall == CallReturn(extract_main_text(call_in))

SpecMainText == CallStart(TextDocs) /\ [][MainTextCall]_vars

\* hrefs given to unwrap_google_redirect, by their parts: what precedes the
\* host, the host as written, the path, and at most UnwrapParams query
\* parameters, each with its name, its value as written and the value it
\* stands for
UnwrapParams == 2
UnwrapFields ==
    {[name |-> "url", raw |-> "https%3A%2F%2Fpub.example%2Fa", value |-> "https://pub.example/a"],
     [name |-> "url", raw |-> "", value |-> ""],
     [name |-> "q", raw |-> "https://example.com/a", value |-> "https://example.com/a"],
     [name |-> "q", raw |-> "a+b", value |-> "a b"],
     [name |-> "q", raw |-> "", value |-> ""],
     [name |-> "sa", raw |-> "D", value |-> "D"]}
UnwrapInputs ==
    [prefix : {"https://", ""},
     host : {"google.com", "WWW.Google.com", "news.google.com", "pub.example", "google.com:443"},
     path : {"/url", "/url/x", ""},
     params : SeqsUpTo(UnwrapFields, UnwrapParams)]

RECURSIVE QueryOf(_)
\* the query string: name=raw fields joined by "&"
QueryOf(params) ==
    IF params = <<>> THEN ""
    ELSE Head(params).name \o "=" \o Head(params).raw
           \o (IF Len(params) = 1 THEN "" ELSE "&" \o QueryOf(Tail(params)))

HrefOf(parts) ==
    parts.prefix \o parts.host \o parts.path
      \o (IF parts.params = <<>> THEN "" ELSE "?" \o QueryOf(parts.params))

UnwrapCall == CallReturn(unwrap_google_redirect(HrefOf(call_in)))

SpecUnwrap == CallStart(UnwrapInputs) /\ [][UnwrapCall]_vars

\* the lang attribute of <html> (None without one) and what pick_meta returns
\* for og:locale, as given to line 460
LangInputs ==
    [html_lang : {None, "", "en-US", "EN", " pt_BR ", "-US", "_x", "zh-Hant-TW", "fr_-x"},
     og_locale : {None, "", "fr_FR", "pt_BR", "en-US", "DE", "_", "-"}]

\* line 460
LangCall ==
    CallReturn(clean_lang(Either(detect_lang(call_in.html_lang), call_in.og_locale)))

SpecLang == CallStart(LangInputs) /\ [][LangCall]_vars

\* wrapper pages given to extract_publisher_url_from_google_news: at most
\* PublisherAnchors anchors and a canonical link, read at base_url
PublisherAnchors == 2
PublisherInputs ==
    [html : [anchors : SeqsUpTo(MainAnchorSet
                                  \cup {[href |-> GatewayURL, text |-> "Go to article"],
                                        [href |-> "https://google.com/", text |-> "Home"]},
                                PublisherAnchors),
             canon : {None, OtherURL, "https://www.google.com/"}],
     base_url : {WrapperURL}]

PublisherCall ==
    CallReturn(extract_publisher_url_from_google_news(call_in.html, call_in.base_url))

SpecPublisher == CallStart(PublisherInputs) /\ [][PublisherCall]_vars

\* C11: whatever the browser engine or the network does, Tier A returns its
\* input unchanged or a URL that is_google_news_wrapper does not classify as
\* a wrapper, and Tier B returns None or such a URL.
C11_TiersResolveOrSignal ==
    /\ decode_pc \in {"returned", "redirected"} =>
          decode_ret = decode_src \/ ~is_google_news_wrapper(decode_ret)
    /\ decode_pc = "redirected" =>
          redirect_ret = None \/ ~is_google_news_wrapper(redirect_ret)

----------------------------------------------------------------------------
(* Properties of main's pre-check and of what it emits *)

\* line 392: the --url argument as main keeps it
SuppliedURL == Strip(args.url)

\* lines 405 and 417: the tests main applies to a tier's result
Resolved(call) ==
    IF call.fn = "decode_google_news_url" THEN call.ret # call.url
    ELSE call.ret # None /\ call.ret # ""

\* C12: for a wrapper input Tier A is called first and Tier B only after an
\* unresolved Tier A; the first fetch is of the URL a tier resolved, or of
\* the supplied wrapper URL when both were unresolved; for any other input
\* the first fetch is the first call and no tier is called.
C12_TierOrder ==
    \A i \in 1..Len(calls) :
       /\ calls[i].fn = "decode_google_news_url" =>
             i = 1 /\ IsWrapper(SuppliedURL) /\ calls[i].url = SuppliedURL
       /\ calls[i].fn = "try_google_news_redirect" =>
             /\ i = 2
             /\ calls[1].fn = "decode_google_news_url"
             /\ ~Resolved(calls[1])
             /\ calls[i].url = SuppliedURL
       /\ calls[i].fn = "fetch_html" =>
             IF i = 1 THEN ~IsWrapper(SuppliedURL) /\ calls[i].url = SuppliedURL
             ELSE /\ calls[i - 1].fn # "fetch_html"
                  /\ IF Resolved(calls[i - 1]) THEN calls[i].url = calls[i - 1].ret
                     ELSE /\ calls[i - 1].fn = "try_google_news_redirect"
                          /\ calls[i].url = SuppliedURL

\* Tier A was unresolved, Tier B resolved, and the first fetch asked for
\* Tier B's URL
C12_Witness ==
    /\ Len(calls) = 3
    /\ calls[1].ret = calls[1].url
    /\ calls[2].ret = PubURL
    /\ calls[3] = [fn |-> "fetch_html", url |-> PubURL, ret |-> None]

\* C13: a step of the translation stage never ends in the failure path: it
\* leads to the emission of a success envelope, and each of title and text is
\* afterwards either its pre-translation value or its complete translation
\* (the text is never partly translated), whichever translator call failed.
C13_TranslationNeverAborts ==
    [][pc = "translate" =>
          /\ pc' = "emit"
          /\ exc' = None
          /\ article'.title \in {article.title, Translated(args.target_lang, article.title)}
          /\ article'.text \in
                {article.text,
                 JoinSpace([i \in 1..Len(ChunksOf(article.text)) |->
                              Translated(args.target_lang, ChunksOf(article.text)[i])])}]_vars

\* C14: the translation stage is entered only when a target language was
\* requested and differs from the detected one; it leaves site and author as
\* extracted; no other step after extraction changes the article, so that
\* without translation the emitted title and text are the extracted ones.
C14_TranslationFrame ==
    [][/\ pc' = "translate" =>
             args.target_lang \notin {None, ""} /\ args.target_lang # article'.lang
       /\ pc = "translate" =>
             article'.site = article.site /\ article'.author = article.author
       /\ pc \notin {"loop", "translate"} => article' = article
       /\ pc = "emit" /\ stdout'[Len(stdout')].ok =>
             /\ stdout'[Len(stdout')].data.title = article.title
             /\ stdout'[Len(stdout')].data.text = article.text
             /\ stdout'[Len(stdout')].data.site = article.site
             /\ stdout'[Len(stdout')].data.author = article.author]_vars

\* "en" was requested for a page detected as "en": the record carries the
\* extracted title and text
C14_Witness ==
    /\ Succeeded
    /\ args.target_lang = "en"
    /\ stdout[1].data.lang = "en"
    /\ stdout[1].data.title = "Title"
    /\ stdout[1].data.text = "abcdefg"
    /\ stdout[1].data.author = "Ann"

\* C16: in every success record data.url is the URL main was given, trimmed,
\* also when the pre-check resolved the wrapper to another URL.
C16_UrlIsSupplied ==
    Succeeded => stdout[1].data.url = SuppliedURL

----------------------------------------------------------------------------
(* Properties of the helper functions *)

\* C17: normalize_space is idempotent, and its result has no two adjacent
\* spaces or tabs, no three adjacent newlines, and no whitespace at either end.
C17_NormalizeIdempotent ==
    call_pc = "returned" =>
       /\ normalize_space(call_out) = call_out
       /\ \A i \in 1..(Len(call_out) - 1) :
             ~(CharAt(call_out, i) \in {" ", "\t"} /\ CharAt(call_out, i + 1) \in {" ", "\t"})
       /\ ~Contains(call_out, "\n\n\n")
       /\ call_out # "" =>
             /\ CharAt(call_out, 1) \notin Whitespace
             /\ CharAt(call_out, Len(call_out)) \notin Whitespace

\* a run of three newlines inside the text became two
C17_Witness ==
    /\ call_pc = "returned"
    /\ call_in = "a\n\n\na"
    /\ call_out = "a\n\na"

\* the result of each strategy of extract_main_text on the page, "" when the
\* strategy has none: the engine, the first <article>, the longest candidate,
\* the <body>
StrategyResults(doc) ==
    <<IF doc.engine.raises \/ doc.engine.text = None THEN ""
      ELSE normalize_space(doc.engine.text),
      IF Articles(Kept(doc.blocks)) = <<>> THEN ""
      ELSE normalize_space(GetText(Head(Articles(Kept(doc.blocks))).pieces)),
      IF Candidates(Kept(doc.blocks)) = <<>> THEN ""
      ELSE Longest(Candidates(Kept(doc.blocks))),
      IF doc.has_body THEN normalize_space(GetText(AllPieces(Kept(doc.blocks))))
      ELSE "">>

\* C15: extract_main_text returns the result of the first strategy, in the
\* order engine, <article>, longest candidate, <body>, whose result is not
\* empty, and the empty string when every strategy's result is empty.
C15_FirstNonEmptyWins ==
    call_pc = "returned" =>
       call_out = IF SelectSeq(StrategyResults(call_in), NonEmpty) = <<>> THEN ""
                  ELSE Head(SelectSeq(StrategyResults(call_in), NonEmpty))

\* the href is a gateway link: an absolute URL whose host (the netloc,
\* compared without regard to case) is google.com or www.google.com and whose
\* path is /url
IsGatewayLink(parts) ==
    /\ parts.prefix = "https://"
    /\ Lower(parts.host) \in {"google.com", "www.google.com"}
    /\ parts.path = "/url"

\* the values the parameters called name stand for, blank ones left out
ValuesOf(params, name) ==
    SelectSeq([i \in 1..Len(params) |->
                 IF params[i].name = name THEN params[i].value ELSE ""],
              NonEmpty)

\* C18: for a gateway link unwrap_google_redirect returns the decoded value
\* of its url parameter if there is a non-empty one, else that of its q
\* parameter, else the href; for any other href it returns the href.
C18_UnwrapGateway ==
    call_pc = "returned" =>
       call_out =
          IF IsGatewayLink(call_in) /\ ValuesOf(call_in.params, "url") # <<>>
          THEN Head(ValuesOf(call_in.params, "url"))
          ELSE IF IsGatewayLink(call_in) /\ ValuesOf(call_in.params, "q") # <<>>
          THEN Head(ValuesOf(call_in.params, "q"))
          ELSE HrefOf(call_in)

\* https://google.com/url?q=https://example.com/a&sa=D gives
\* https://example.com/a
C18_Witness ==
    /\ call_pc = "returned"
    /\ HrefOf(call_in) = "https://google.com/url?q=https://example.com/a&sa=D"
    /\ call_out = "https://example.com/a"

RECURSIVE UntilSep(_, _)
\* the longest prefix of s with no character of seps
UntilSep(s, seps) ==
    IF Len(s) = 0 \/ CharAt(s, 1) \in seps THEN ""
    ELSE CharAt(s, 1) \o UntilSep(From(s, 2), seps)

\* the primary part of a language tag: what precedes its first "_" or "-",
\* lowercased
PrimaryPart(tag) == Strip(Lower(UntilSep(Strip(tag), {"_", "-"})))

\* C19: the language of the record is absent or a non-empty lowercase code
\* without "-" and "_".  It is the primary part of the root lang attribute
\* when that attribute has something before its first "-", and otherwise the
\* primary part of og:locale; it is absent when the tag used is missing or has
\* an empty primary part.
C19_LangIsBareCode ==
    call_pc = "returned" =>
       /\ \/ call_out = None
          \/ /\ call_out # ""
             /\ Lower(call_out) = call_out
             /\ ~Contains(call_out, "-")
             /\ ~Contains(call_out, "_")
       /\ call_out =
             IF /\ call_in.html_lang # None
                /\ Strip(UntilSep(call_in.html_lang, {"-"})) # ""
             THEN OrNone(PrimaryPart(call_in.html_lang))
             ELSE IF call_in.og_locale = None THEN None
             ELSE OrNone(PrimaryPart(call_in.og_locale))

\* without a root lang attribute, og:locale "pt_BR" gives "pt"
C19_Witness ==
    /\ call_pc = "returned"
    /\ call_in = [html_lang |-> None, og_locale |-> "pt_BR"]
    /\ call_out = "pt"

\* C20: extract_publisher_url_from_google_news returns nothing or a URL whose
\* host is none of news.google.com, www.google.com and google.com.
C20_PublisherOffAggregator ==
    call_pc = "returned" =>
       call_out = None \/ hostname(call_out) \notin AggregatorHosts

\* picked is the first entry of targets, in document order, that is accepted
\* (not None) and satisfies wanted
IsFirst(picked, targets, wanted(_)) ==
    \E i \in 1..Len(targets) :
       /\ targets[i] = picked
       /\ picked # None /\ wanted(picked)
       /\ \A j \in 1..(i - 1) : targets[j] = None \/ ~wanted(targets[j])

\* no entry of targets is accepted and satisfies wanted
NoneOf(targets, wanted(_)) ==
    \A i \in 1..Len(targets) : targets[i] = None \/ ~wanted(targets[i])

Accepted(href) == TRUE
HasPath(href) == Len(urlparse(href).path) > 1

\* each anchor's href as strategy 1 and as strategy 3 accept it (None when
\* they do not)
CtaTargets(page) == [i \in 1..Len(page.anchors) |-> CtaTarget(page.anchors[i])]
ExternalTargets(page, base_url) ==
    [i \in 1..Len(page.anchors) |-> ExternalTarget(page.anchors[i], base_url)]

\* C21: the first accepted call-to-action anchor is returned whatever else
\* the page has; without one, the accepted canonical link; without that, the
\* first accepted href in document order whose path is longer than one
\* character; without such a path, the first accepted href; else nothing.
C21_FirstStrategyWins ==
    call_pc = "returned" =>
       IF ~NoneOf(CtaTargets(call_in.html), Accepted)
       THEN IsFirst(call_out, CtaTargets(call_in.html), Accepted)
       ELSE IF CanonTarget(call_in.html.canon) # None
       THEN call_out = CanonTarget(call_in.html.canon)
       ELSE IF ~NoneOf(ExternalTargets(call_in.html, call_in.base_url), HasPath)
       THEN IsFirst(call_out, ExternalTargets(call_in.html, call_in.base_url), HasPath)
       ELSE IF ~NoneOf(ExternalTargets(call_in.html, call_in.base_url), Accepted)
       THEN IsFirst(call_out, ExternalTargets(call_in.html, call_in.base_url), Accepted)
       ELSE call_out = None

\* a bare-domain link precedes a link with a path: the second is returned
C21_Witness ==
    /\ call_pc = "returned"
    /\ call_in.html.canon = None
    /\ Len(call_in.html.anchors) = 2
    /\ call_in.html.anchors[1].href = "https://google.com/"
    /\ call_in.html.anchors[2].href = AggregatorURL
    /\ call_out = AggregatorURL

\* the input is a wrapper and both pre-check tiers left it unresolved
PrecheckUnresolved == InputIsWrapper /\ tier = "unresolved" /\ pc \notin {"precheck", "redirect"}

====
